---- MODULE Spec2Model ----
(***************************************************************************)
(* Project Samarth backend (app.py): the rule-based QueryParser, the       *)
(* AnswerGenerator that dispatches to four template handlers, and the      *)
(* POST /api/query endpoint.                                               *)
(*                                                                         *)
(* Text is modelled as a sequence of one-character strings, so that        *)
(* str.lower(), the substring test `in` and the two regular expressions    *)
(* of extract_years are computed character by character.  A canonical name *)
(* is kept twice: as a TLA+ string (the value the program puts in its      *)
(* lists and answers) and as its characters (what is matched).  An answer  *)
(* is the sequence of the pieces its f-strings concatenate.                *)
(***************************************************************************)
EXTENDS Integers, Sequences, FiniteSets, TLC

\* ------------------------------------------------------------------ state
VARIABLES
  body,      \* the request being written: "none" (its body holds no JSON
             \* object), "nokey" (an object without 'query'), "query"
  posted,    \* the value of its 'query' key, as characters
  nfrags,    \* how many fragments the client has typed into it
  pc,        \* "idle": request not yet sent; "done": response produced
  status,    \* HTTP status of the response (0 before there is one)
  response,  \* the JSON object of the response
  called,    \* the handlers answer_query called for this request
  info,      \* what answer_query printed: query type, states, crops, years
  now,       \* datetime.now(), in clock readings
  memo       \* an earlier exchange a client kept to compare a later one with

vars == <<body, posted, nfrags, pc, status, response, called, info, now, memo>>

\* ---------------------------------------------------------------- bounds
\* fragments in one query
MaxFrags == 3

\* requests in one session
MaxRequests == 3

\* ------------------------------------------------------------- constants
DATASETS ==
  [crop_production |-> "9ef84268-d588-465a-a308-a864a43d0070",
   rainfall        |-> "e9aafad3-6a08-4f66-b59d-38c65e7ae44f"]

STATES ==
  << "Punjab",
     "Haryana",
     "Uttar Pradesh",
     "Madhya Pradesh",
     "Bihar",
     "West Bengal",
     "Gujarat",
     "Maharashtra",
     "Karnataka",
     "Tamil Nadu",
     "Andhra Pradesh",
     "Telangana",
     "Rajasthan",
     "Odisha",
     "Chhattisgarh",
     "Jharkhand",
     "Assam",
     "Kerala",
     "Himachal Pradesh",
     "Uttarakhand" >>

STATES_CHARS ==
  << <<"P","u","n","j","a","b">>,
     <<"H","a","r","y","a","n","a">>,
     <<"U","t","t","a","r"," ","P","r","a","d","e","s","h">>,
     <<"M","a","d","h","y","a"," ","P","r","a","d","e","s","h">>,
     <<"B","i","h","a","r">>,
     <<"W","e","s","t"," ","B","e","n","g","a","l">>,
     <<"G","u","j","a","r","a","t">>,
     <<"M","a","h","a","r","a","s","h","t","r","a">>,
     <<"K","a","r","n","a","t","a","k","a">>,
     <<"T","a","m","i","l"," ","N","a","d","u">>,
     <<"A","n","d","h","r","a"," ","P","r","a","d","e","s","h">>,
     <<"T","e","l","a","n","g","a","n","a">>,
     <<"R","a","j","a","s","t","h","a","n">>,
     <<"O","d","i","s","h","a">>,
     <<"C","h","h","a","t","t","i","s","g","a","r","h">>,
     <<"J","h","a","r","k","h","a","n","d">>,
     <<"A","s","s","a","m">>,
     <<"K","e","r","a","l","a">>,
     <<"H","i","m","a","c","h","a","l"," ","P","r","a","d","e","s","h">>,
     <<"U","t","t","a","r","a","k","h","a","n","d">> >>

CROPS ==
  << "Rice",
     "Wheat",
     "Maize",
     "Bajra",
     "Jowar",
     "Ragi",
     "Barley",
     "Cotton",
     "Jute",
     "Sugarcane",
     "Groundnut",
     "Soybean",
     "Sunflower",
     "Mustard",
     "Coconut",
     "Tea",
     "Coffee",
     "Rubber",
     "Potato",
     "Onion" >>

CROPS_CHARS ==
  << <<"R","i","c","e">>,
     <<"W","h","e","a","t">>,
     <<"M","a","i","z","e">>,
     <<"B","a","j","r","a">>,
     <<"J","o","w","a","r">>,
     <<"R","a","g","i">>,
     <<"B","a","r","l","e","y">>,
     <<"C","o","t","t","o","n">>,
     <<"J","u","t","e">>,
     <<"S","u","g","a","r","c","a","n","e">>,
     <<"G","r","o","u","n","d","n","u","t">>,
     <<"S","o","y","b","e","a","n">>,
     <<"S","u","n","f","l","o","w","e","r">>,
     <<"M","u","s","t","a","r","d">>,
     <<"C","o","c","o","n","u","t">>,
     <<"T","e","a">>,
     <<"C","o","f","f","e","e">>,
     <<"R","u","b","b","e","r">>,
     <<"P","o","t","a","t","o">>,
     <<"O","n","i","o","n">> >>

UpperToLower ==
  [A |-> "a", B |-> "b", C |-> "c", D |-> "d", E |-> "e", F |-> "f",
   G |-> "g", H |-> "h", I |-> "i", J |-> "j", K |-> "k", L |-> "l",
   M |-> "m", N |-> "n", O |-> "o", P |-> "p", Q |-> "q", R |-> "r",
   S |-> "s", T |-> "t", U |-> "u", V |-> "v", W |-> "w", X |-> "x",
   Y |-> "y", Z |-> "z"]

\* ------------------------------------------------------- text primitives
Digits == {"0","1","2","3","4","5","6","7","8","9"}

LowerLetters ==
  {"a","b","c","d","e","f","g","h","i","j","k","l","m",
   "n","o","p","q","r","s","t","u","v","w","x","y","z"}

\* \s of the re module, restricted to the white space the inputs contain
IsSpace(c) == c \in {" "}

\* \d of the re module
IsDigit(c) == c \in Digits

\* \w of the re module: letters, digits and the underscore
IsWord(c) == c \in LowerLetters \cup DOMAIN UpperToLower \cup Digits \cup {"_"}

LowerChar(c) == IF c \in DOMAIN UpperToLower THEN UpperToLower[c] ELSE c

\* str.lower()
Lower(s) == SubSeq([i \in 1..Len(s) |-> LowerChar(s[i])], 1, Len(s))

\* sub occurs in s starting at index i
StartsAt(sub, s, i) ==
  /\ i >= 1
  /\ i + Len(sub) - 1 <= Len(s)
  /\ \A j \in 1..Len(sub) : s[i + j - 1] = sub[j]

\* Python's `sub in s` on strings
In(sub, s) ==
  LET n == Len(sub)
  IN  \E i \in 1..(Len(s) - n + 1) : s[i] = sub[1] /\ SubSeq(s, i, i + n - 1) = sub

DigitValue(c) ==
  CASE c = "0" -> 0 [] c = "1" -> 1 [] c = "2" -> 2 [] c = "3" -> 3
    [] c = "4" -> 4 [] c = "5" -> 5 [] c = "6" -> 6 [] c = "7" -> 7
    [] c = "8" -> 8 [] c = "9" -> 9

\* int() of a run of decimal digits
RECURSIVE ToInt(_)
ToInt(ds) ==
  IF ds = <<>> THEN 0
  ELSE 10 * ToInt(SubSeq(ds, 1, Len(ds) - 1)) + DigitValue(ds[Len(ds)])

\* list(range(a, b))
Range(a, b) == IF b > a THEN [i \in 1..(b - a) |-> a + i - 1] ELSE <<>>

\* min() and max() of a non-empty list of integers
Min(xs) == CHOOSE m \in {xs[i] : i \in 1..Len(xs)} : \A i \in 1..Len(xs) : m <= xs[i]
Max(xs) == CHOOSE m \in {xs[i] : i \in 1..Len(xs)} : \A i \in 1..Len(xs) : m >= xs[i]

\* sep.join(parts), each part a single piece
Join(sep, parts) ==
  IF parts = <<>> THEN <<>>
  ELSE [i \in 1..(2 * Len(parts) - 1) |->
          IF i % 2 = 1 THEN parts[(i + 1) \div 2] ELSE sep]

\* sep.join(parts), each part a sequence of pieces
RECURSIVE JoinPieces(_, _)
JoinPieces(sep, parts) ==
  IF parts = <<>> THEN <<>>
  ELSE IF Len(parts) = 1 THEN parts[1]
  ELSE parts[1] \o <<sep>> \o JoinPieces(sep, Tail(parts))

\* map(str, years)
StrAll(xs) == [i \in 1..Len(xs) |-> ToString(xs[i])]

\* ------------------------------------------------------------ QueryParser
\* the loop of extract_states / extract_crops over a canonical list, from
\* its k-th entry on
\* the loop inserting each match at the front of the list
RECURSIVE FoundFrom_prepend(_, _, _, _)
FoundFrom_prepend(names, lowered, query_lower, k) ==
  IF k > Len(names) THEN <<>>
  ELSE IF In(lowered[k], query_lower)
       THEN FoundFrom_prepend(names, lowered, query_lower, k + 1) \o <<names[k]>>
       ELSE FoundFrom_prepend(names, lowered, query_lower, k + 1)

RECURSIVE FoundFrom(_, _, _, _)
FoundFrom(names, lowered, query_lower, k) ==
  IF k > Len(names) THEN <<>>
  ELSE IF In(lowered[k], query_lower)
       THEN <<names[k]>> \o FoundFrom(names, lowered, query_lower, k + 1)
       ELSE FoundFrom(names, lowered, query_lower, k + 1)

\* state.lower() and crop.lower() of every canonical name
STATES_LOWER ==
  SubSeq([k \in 1..Len(STATES) |-> Lower(STATES_CHARS[k])], 1, Len(STATES))

CROPS_LOWER ==
  SubSeq([k \in 1..Len(CROPS) |-> Lower(CROPS_CHARS[k])], 1, Len(CROPS))

extract_states(query) == FoundFrom(STATES, STATES_LOWER, Lower(query), 1)

extract_crops(query) == FoundFrom(CROPS, CROPS_LOWER, Lower(query), 1)

\* \b(20\d{2})\b matches at index i
YearAt(s, i) ==
  /\ i + 3 <= Len(s)
  /\ s[i] = "2"
  /\ s[i + 1] = "0"
  /\ IsDigit(s[i + 2])
  /\ IsDigit(s[i + 3])
  /\ (i = 1 \/ ~IsWord(s[i - 1]))
  /\ (i + 3 = Len(s) \/ ~IsWord(s[i + 4]))

\* [int(y) for y in re.findall(r'\b(20\d{2})\b', query)]: the matches from
\* left to right.  Two matches never overlap (the character after a match
\* is not a word character), so every index where the pattern matches counts.
FindYears(s) ==
  LET at == {i \in 1..(Len(s) - 3) : s[i] = "2" /\ YearAt(s, i)}
      nth(k) == CHOOSE i \in at : Cardinality({j \in at : j <= i}) = k
  IN  [k \in 1..Cardinality(at) |-> ToInt(SubSeq(s, nth(k), nth(k) + 3))]

\* end of the run of white space / of digits that starts at i
RECURSIVE SkipSpaces(_, _)
SkipSpaces(s, i) ==
  IF i <= Len(s) /\ IsSpace(s[i]) THEN SkipSpaces(s, i + 1) ELSE i

RECURSIVE SkipDigits(_, _)
SkipDigits(s, i) ==
  IF i <= Len(s) /\ IsDigit(s[i]) THEN SkipDigits(s, i + 1) ELSE i

\* last\s+(\d+)\s+years? matches at index i
LastAt(s, i) ==
  LET a == i + 4
      b == SkipSpaces(s, a)
      c == SkipDigits(s, b)
      d == SkipSpaces(s, c)
  IN  /\ StartsAt(<<"l","a","s","t">>, s, i)
      /\ b > a
      /\ c > b
      /\ d > c
      /\ StartsAt(<<"y","e","a","r">>, s, d)

\* group(1) of the match at index i
LastGroup(s, i) ==
  LET b == SkipSpaces(s, i + 4)
  IN  SubSeq(s, b, SkipDigits(s, b) - 1)

\* re.search: the indexes at which the pattern matches (the first is used)
LastMatches(s) == {i \in 1..Len(s) : s[i] = "l" /\ LastAt(s, i)}

\* the current year read from the clock instead of the fixed 2023
current_year_from_clock == 2023 + now

current_year == 2023

DefaultYears == <<2020, 2021, 2022, 2023>>

\* extract_years without the default window
extract_years_no_default(query) ==
  LET explicit == FindYears(query)
      s == Lower(query)
      ms == LastMatches(s)
  IN  IF ms # {}
      THEN LET i == CHOOSE m \in ms : \A o \in ms : m <= o
               n == ToInt(LastGroup(s, i))
           IN  Range(current_year - n + 1, current_year + 1)
      ELSE explicit

\* extract_years appending the "last N years" range to the explicit years
extract_years_merge(query) ==
  LET explicit == FindYears(query)
      s == Lower(query)
      ms == LastMatches(s)
      years ==
        IF ms # {}
        THEN LET i == CHOOSE m \in ms : \A o \in ms : m <= o
                 n == ToInt(LastGroup(s, i))
             IN  explicit \o Range(current_year - n + 1, current_year + 1)
        ELSE explicit
  IN  IF years # <<>> THEN years ELSE DefaultYears

extract_years(query) ==
  LET explicit == FindYears(query)
      s == Lower(query)
      ms == LastMatches(s)
      years ==
        IF ms # {}
        THEN LET i == CHOOSE m \in ms : \A o \in ms : m <= o
                 n == ToInt(LastGroup(s, i))
             IN  Range(current_year - n + 1, current_year + 1)
        ELSE explicit
  IN  IF years # <<>> THEN years ELSE DefaultYears

\* classify_query with the highest/lowest rule tested first
classify_query_extremes_first(query) ==
  LET query_lower == Lower(query)
  IN  IF In(<<"h","i","g","h","e","s","t">>, query_lower)
         \/ In(<<"l","o","w","e","s","t">>, query_lower)
      THEN "production_extremes"
      ELSE IF In(<<"c","o","m","p","a","r","e">>, query_lower)
              /\ In(<<"r","a","i","n","f","a","l","l">>, query_lower)
      THEN "rainfall_comparison"
      ELSE IF In(<<"t","r","e","n","d">>, query_lower)
      THEN "trend_analysis"
      ELSE IF In(<<"r","a","i","n","f","a","l","l">>, query_lower)
      THEN "rainfall_query"
      ELSE IF In(<<"p","r","o","d","u","c","t","i","o","n">>, query_lower)
              \/ In(<<"c","r","o","p">>, query_lower)
      THEN "production_query"
      ELSE "general"

classify_query(query) ==
  LET query_lower == Lower(query)
  IN  IF In(<<"c","o","m","p","a","r","e">>, query_lower)
         /\ In(<<"r","a","i","n","f","a","l","l">>, query_lower)
      THEN "rainfall_comparison"
      ELSE IF In(<<"h","i","g","h","e","s","t">>, query_lower)
              \/ In(<<"l","o","w","e","s","t">>, query_lower)
      THEN "production_extremes"
      ELSE IF In(<<"t","r","e","n","d">>, query_lower)
      THEN "trend_analysis"
      ELSE IF In(<<"r","a","i","n","f","a","l","l">>, query_lower)
      THEN "rainfall_query"
      ELSE IF In(<<"p","r","o","d","u","c","t","i","o","n">>, query_lower)
              \/ In(<<"c","r","o","p">>, query_lower)
      THEN "production_query"
      ELSE "general"

\* -------------------------------------------------------- AnswerGenerator
\* U+26A0 U+FE0F, the sign the two warnings start with
WarningMarker == "(warning sign)"

RainfallSource ==
  [dataset |-> "Rainfall in India",
   source |-> "India Meteorological Department (IMD)",
   url |-> "https://www.data.gov.in/catalog/rainfall-india",
   resource_id |-> DATASETS.rainfall]

CropSource ==
  [dataset |-> "District-wise Crop Production Statistics",
   source |-> "Ministry of Agriculture & Farmers Welfare",
   url |-> "https://www.data.gov.in/catalog/district-wise-season-wise-crop-production-statistics-0",
   resource_id |-> DATASETS.crop_production]

ExtremesSource ==
  [dataset |-> "District-wise Crop Production Statistics",
   source |-> "Ministry of Agriculture & Farmers Welfare, Directorate of Economics and Statistics",
   url |-> "https://www.data.gov.in/catalog/district-wise-season-wise-crop-production-statistics-0",
   resource_id |-> DATASETS.crop_production]

PlatformSource ==
  [dataset |-> "Open Government Data Platform",
   source |-> "Government of India",
   url |-> "https://www.data.gov.in"]

\* handle_rainfall_comparison asking for more than two states
handle_rainfall_comparison_over_two(states, years) ==
  IF Len(states) <= 2
  THEN [answer |-> <<WarningMarker, " Please specify at least two states to compare rainfall.">>,
        sources |-> <<>>]
  ELSE [answer |->
          <<"**Rainfall Comparison Analysis (", ToString(Min(years)), "-",
            ToString(Max(years)), ")**",
            "**", states[1], ":** 850mm 75% 15% 10%",
            "**", states[2], ":** 720mm 70% 20% 10%">>,
        sources |-> <<RainfallSource, CropSource>>,
        metadata |-> [states |-> states, years |-> years,
                      query_type |-> "rainfall_comparison"]]

handle_rainfall_comparison(states, years) ==
  IF Len(states) < 2
  THEN [answer |-> <<WarningMarker, " Please specify at least two states to compare rainfall.">>,
        sources |-> <<>>]
  ELSE IF years = <<>>
  THEN \* min() of an empty list
       [raised |-> "ValueError"]
  ELSE [answer |->
          <<"**Rainfall Comparison Analysis (", ToString(Min(years)), "-",
            ToString(Max(years)), ")**",
            "**", states[1], ":** 850mm 75% 15% 10%",
            "**", states[2], ":** 720mm 70% 20% 10%",
            "**Top 3 Most Produced Crops:**",
            "**", states[1], ":** Wheat 18.5 Rice 12.3 Cotton 1.8",
            "**", states[2], ":** Wheat 11.2 Rice 4.5 Sugarcane 3.1">>,
        sources |-> <<RainfallSource, CropSource>>,
        metadata |-> [states |-> states, years |-> years,
                      query_type |-> "rainfall_comparison"]]

\* handle_production_extremes checking the crops only
handle_production_extremes_crops_only(states, crops, years) ==
  IF crops = <<>>
  THEN [answer |-> <<WarningMarker, " Please specify both states and crops for production analysis.">>,
        sources |-> <<>>]
  ELSE LET crop == crops[1]
           year == IF years # <<>> THEN Max(years) ELSE 2023
       IN  [answer |->
              <<"**Production Analysis: ", crop, " (", ToString(year), ")**">>,
            sources |-> <<ExtremesSource>>,
            metadata |-> [states |-> states, crops |-> crops, year |-> year]]

handle_production_extremes(states, crops, years) ==
  IF states = <<>> \/ crops = <<>>
  THEN [answer |-> <<WarningMarker, " Please specify both states and crops for production analysis.">>,
        sources |-> <<>>]
  ELSE LET crop == crops[1]
           year == IF years # <<>> THEN Max(years) ELSE 2023
       IN  [answer |->
              <<"**Production Analysis: ", crop, " (", ToString(year), ")**">>
              \o (IF Len(states) >= 2
                  THEN <<"**", states[1], ":** Highest producing district: Ludhiana 2,450,000 tonnes 35%",
                         "**", states[2], ":** Lowest producing district: Panchkula 45,000 tonnes 0.8%",
                         "**Analysis:** The production difference of ~54x">>
                  ELSE <<>>),
            sources |-> <<ExtremesSource>>,
            metadata |-> [states |-> states, crops |-> crops, year |-> year]]

\* handle_production_query citing its dataset only when a crop is named
handle_production_query_uncited(states, crops, years) ==
  [answer |-> <<"**Crop Production Analysis**">>,
   sources |-> IF crops # <<>> THEN <<CropSource>> ELSE <<>>]

handle_production_query(states, crops, years) ==
  [answer |->
     <<"**Crop Production Analysis**">>
     \o (IF crops # <<>> THEN <<"**Crops:** ">> \o Join(", ", crops) ELSE <<>>)
     \o (IF states # <<>> THEN <<"**States:** ">> \o Join(", ", states) ELSE <<>>)
     \o (IF years # <<>>
         THEN <<"**Period:** ", ToString(Min(years)), "-", ToString(Max(years))>>
         ELSE <<>>)
     \o <<"Based on data from the Ministry of Agriculture & Farmers Welfare, ",
          "For detailed analysis, please specify:">>,
   sources |-> <<CropSource>>]

handle_general(query, states, crops, years) ==
  LET context_parts ==
        (IF states # <<>> THEN << <<"States: ">> \o Join(", ", states) >> ELSE <<>>)
        \o (IF crops # <<>> THEN << <<"Crops: ">> \o Join(", ", crops) >> ELSE <<>>)
        \o (IF years # <<>> THEN << <<"Years: ">> \o Join(", ", StrAll(years)) >> ELSE <<>>)
      context == IF context_parts # <<>> THEN JoinPieces(" | ", context_parts)
                 ELSE <<"General inquiry">>
  IN  [answer |->
         <<"**Agricultural Data Analysis Request**", "**Detected Context:** ">>
         \o context
         \o <<"I can help you analyze data from data.gov.in including:">>,
       sources |-> <<PlatformSource>>]

\* answer_query with a branch of its own for trend_analysis
answer_query_trend_branch(query) ==
  LET query_type == classify_query(query)
      states == extract_states(query)
      crops == extract_crops(query)
      years == extract_years(query)
      parsed == [query_type |-> query_type, states |-> states,
                 crops |-> crops, years |-> years]
  IN  IF query_type = "rainfall_comparison"
      THEN [info |-> parsed, called |-> <<"handle_rainfall_comparison">>,
            result |-> handle_rainfall_comparison(states, years)]
      ELSE IF query_type = "production_extremes"
      THEN [info |-> parsed, called |-> <<"handle_production_extremes">>,
            result |-> handle_production_extremes(states, crops, years)]
      ELSE IF query_type = "production_query" \/ query_type = "trend_analysis"
      THEN [info |-> parsed, called |-> <<"handle_production_query">>,
            result |-> handle_production_query(states, crops, years)]
      ELSE [info |-> parsed, called |-> <<"handle_general">>,
            result |-> handle_general(query, states, crops, years)]

\* answer_query: the parse it prints, the handler it calls, what it returns
answer_query(query) ==
  LET query_type == classify_query(query)
      states == extract_states(query)
      crops == extract_crops(query)
      years == extract_years(query)
      parsed == [query_type |-> query_type, states |-> states,
                 crops |-> crops, years |-> years]
  IN  IF query_type = "rainfall_comparison"
      THEN [info |-> parsed, called |-> <<"handle_rainfall_comparison">>,
            result |-> handle_rainfall_comparison(states, years)]
      ELSE IF query_type = "production_extremes"
      THEN [info |-> parsed, called |-> <<"handle_production_extremes">>,
            result |-> handle_production_extremes(states, crops, years)]
      ELSE IF query_type = "production_query"
      THEN [info |-> parsed, called |-> <<"handle_production_query">>,
            result |-> handle_production_query(states, crops, years)]
      ELSE [info |-> parsed, called |-> <<"handle_general">>,
            result |-> handle_general(query, states, crops, years)]

\* ------------------------------------------------------------- the server
NoInfo == [query_type |-> "", states |-> <<>>, crops |-> <<>>, years |-> <<>>]

NoResponse == [success |-> FALSE]

NoMemo == [set |-> FALSE]

BodyKinds == {"none", "nokey", "query"}

\* str(e) of what request.json / data.get raise when the body holds no JSON
\* object: data is None, the body is not JSON, the content type is not JSON
BodyErrors ==
  {"'NoneType' object has no attribute 'get'",
   "400 Bad Request",
   "415 Unsupported Media Type"}

\* the fragments a client types a question from: keywords and names
QueryFrags ==
  { <<"c","o","m","p","a","r","e">>,
    <<"R","a","i","n","f","a","l","l">>,
    <<"h","i","g","h","e","s","t">>,
    <<"L","O","W","E","S","T">>,
    <<"t","r","e","n","d">>,
    <<"p","r","o","d","u","c","t","i","o","n">>,
    <<"c","r","o","p">>,
    <<"P","u","n","j","a","b">>,
    <<" ","h","a","r","y","a","n","a"," ">>,
    <<"w","h","e","a","t">>,
    <<"C","o","m","p","a","r","e"," ","r","a","i","n","f","a","l","l"," ","i","n"," ">>,
    <<"W","e","s","t"," ","B","e","n","g","a","l"," ","a","n","d"," ","B","i","h","a","r">> }

\* the fragments a client types a period from
YearFrags ==
  { <<"2","0","1","9",",">>,
    <<"-","2","0","2","1">>,
    <<" ">>,
    <<"x">>,
    <<"L","a","s","t"," ">>,
    <<"L","a","s","t"," ","0">>,
    <<"3">>,
    <<" ","y","e","a","r","s">>,
    <<"y","e","a","r">>,
    <<"3"," ","Y","e","a","r","s">>,
    <<"l","a","s","t"," ","1"," ","y","e","a","r"," ">>,
    <<"c","o","m","p","a","r","e"," ","r","a","i","n","f","a","l","l"," ","H","a","r","y","a","n","a"," ","P","u","n","j","a","b"," ","2","0","1","8"," ">>,
    <<"h","i","g","h","e","s","t"," ","w","h","e","a","t"," ","r","i","c","e"," ","b","i","h","a","r"," ">> }

\* the fragments of the questions of a session of several requests
SessionFrags ==
  { <<"c","o","m","p","a","r","e"," ","r","a","i","n","f","a","l","l"," ","i","n"," ","P","u","n","j","a","b"," ","a","n","d"," ","H","a","r","y","a","n","a"," ">>,
    <<"h","i","g","h","e","s","t"," ","w","h","e","a","t"," ","l","a","s","t"," ","2"," ","y","e","a","r","s"," ">> }

Init ==
  /\ body \in BodyKinds
  /\ posted = <<>>
  /\ nfrags = 0
  /\ pc = "idle"
  /\ status = 0
  /\ response = NoResponse
  /\ called = <<>>
  /\ info = NoInfo
  /\ now = 0
  /\ memo = NoMemo

\* the client appends a fragment to the query of the request it is writing
Compose(vocab) ==
  /\ pc = "idle"
  /\ body = "query"
  /\ nfrags < MaxFrags
  /\ \E f \in vocab : posted' = posted \o f
  /\ nfrags' = nfrags + 1
  /\ UNCHANGED <<body, pc, status, response, called, info, now, memo>>

\* handle_query: POST /api/query
handle_query ==
  /\ pc = "idle"
  /\ pc' = "done"
  /\ now' = now + 1
  /\ IF body = "none"
     THEN \* request.json is None or raises: `except Exception` catches it
          /\ status' = 500
          /\ \E e \in BodyErrors : response' = [success |-> FALSE, error |-> e]
          /\ called' = <<>>
          /\ info' = NoInfo
     ELSE IF body = "nokey" \/ posted = <<>>
     THEN /\ status' = 400
          /\ response' = [success |-> FALSE, error |-> "No query provided"]
          /\ called' = <<>>
          /\ info' = NoInfo
     ELSE LET a == answer_query(posted)
          IN  /\ called' = a.called
              /\ info' = a.info
              /\ IF "raised" \in DOMAIN a.result
                 THEN /\ status' = 500
                      /\ response' = [success |-> FALSE, error |-> a.result.raised]
                 ELSE /\ status' = 200
                      /\ response' =
                           [success |-> TRUE,
                            query |-> posted,
                            answer |-> a.result.answer,
                            sources |-> a.result.sources,
                            metadata |-> IF "metadata" \in DOMAIN a.result
                                         THEN a.result.metadata ELSE <<>>,
                            timestamp |-> now]
  /\ UNCHANGED <<body, posted, nfrags, memo>>

\* the client starts writing its next request
NextRequest ==
  /\ pc = "done"
  /\ now < MaxRequests
  /\ pc' = "idle"
  /\ body' \in BodyKinds
  /\ posted' = <<>>
  /\ nfrags' = 0
  /\ status' = 0
  /\ response' = NoResponse
  /\ called' = <<>>
  /\ info' = NoInfo
  /\ UNCHANGED <<now, memo>>

\* the client keeps the exchange just completed
Remember ==
  /\ pc = "done"
  /\ status = 200
  /\ ~memo.set
  /\ memo' = [set |-> TRUE, query |-> posted, answer |-> response.answer,
              sources |-> response.sources, metadata |-> response.metadata,
              at |-> now]
  /\ UNCHANGED <<body, posted, nfrags, pc, status, response, called, info, now>>

\* one request, its question typed from keywords and names
Next == Compose(QueryFrags) \/ handle_query

Spec == Init /\ [][Next]_vars

\* one request, its question typed from year phrases
NextYears == Compose(YearFrags) \/ handle_query

SpecYears == Init /\ [][NextYears]_vars

\* a session of several requests
NextSession == Compose(SessionFrags) \/ handle_query \/ NextRequest \/ Remember

SpecSession == Init /\ [][NextSession]_vars

\* ----------------------------------------------------------------- claims
\* a request that supplied a non-empty query has been handled
Handled == pc = "done" /\ body = "query" /\ posted # <<>>

\* the lower-cased query contains the word
Has(word) == In(word, Lower(posted))

W_compare == <<"c","o","m","p","a","r","e">>
W_rainfall == <<"r","a","i","n","f","a","l","l">>
W_highest == <<"h","i","g","h","e","s","t">>
W_lowest == <<"l","o","w","e","s","t">>
W_trend == <<"t","r","e","n","d">>
W_production == <<"p","r","o","d","u","c","t","i","o","n">>
W_crop == <<"c","r","o","p">>

Labels ==
  {"rainfall_comparison", "production_extremes", "trend_analysis",
   "rainfall_query", "production_query", "general"}

Elems(xs) == {xs[i] : i \in 1..Len(xs)}

NoDuplicate(xs) == \A i, j \in 1..Len(xs) : i # j => xs[i] # xs[j]

\* xs lists entries of the canonical list, in the order of that list
IndexIn(x, canonical) == CHOOSE k \in 1..Len(canonical) : canonical[k] = x

InListOrder(xs, canonical) ==
  /\ \A i \in 1..Len(xs) : xs[i] \in Elems(canonical)
  /\ \A i \in 1..(Len(xs) - 1) :
       IndexIn(xs[i], canonical) < IndexIn(xs[i + 1], canonical)

\* index of the first occurrence of sub in s, 0 if there is none
FirstIndex(sub, s) ==
  LET at == {i \in 1..(Len(s) - Len(sub) + 1) : SubSeq(s, i, i + Len(sub) - 1) = sub}
  IN  IF at = {} THEN 0 ELSE CHOOSE i \in at : \A o \in at : i <= o

\* the query matches last\s+(\d+)\s+years?, and the N of the leftmost match
MatchesLast == LastMatches(Lower(posted)) # {}

LastN ==
  LET s == Lower(posted)
      ms == LastMatches(s)
  IN  ToInt(LastGroup(s, CHOOSE m \in ms : \A o \in ms : m <= o))

\* the 20xx tokens of the query in order of appearance
ExplicitYears == FindYears(posted)

\* 2023-n+1 .. 2023, ascending
LastYears(n) == [k \in 1..n |-> 2023 - n + k]

WarningTwoStates ==
  <<WarningMarker, " Please specify at least two states to compare rainfall.">>

WarningStatesCrops ==
  <<WarningMarker, " Please specify both states and crops for production analysis.">>

\* C1: classify_query returns one of the six labels, the one of the first
\* rule that matches the lower-cased query in the order compare+rainfall,
\* highest/lowest, trend, rainfall, production/crop, otherwise general.
C1_ClassifyByPriority ==
  Handled =>
    LET r1 == Has(W_compare) /\ Has(W_rainfall)
        r2 == Has(W_highest) \/ Has(W_lowest)
        r3 == Has(W_trend)
        r4 == Has(W_rainfall)
        r5 == Has(W_production) \/ Has(W_crop)
        t == info.query_type
    IN  /\ t \in Labels
        /\ r1 => t = "rainfall_comparison"
        /\ (~r1 /\ r2) => t = "production_extremes"
        /\ (~r1 /\ ~r2 /\ r3) => t = "trend_analysis"
        /\ (~r1 /\ ~r2 /\ ~r3 /\ r4) => t = "rainfall_query"
        /\ (~r1 /\ ~r2 /\ ~r3 /\ ~r4 /\ r5) => t = "production_query"
        /\ (~r1 /\ ~r2 /\ ~r3 /\ ~r4 /\ ~r5) => t = "general"

\* a query with compare, rainfall and highest was classified rainfall_comparison
C1_Witness ==
  /\ Handled
  /\ Has(W_compare) /\ Has(W_rainfall) /\ Has(W_highest)
  /\ info.query_type = "rainfall_comparison"

HandlerOf(label) ==
  CASE label = "rainfall_comparison" -> "handle_rainfall_comparison"
    [] label = "production_extremes" -> "handle_production_extremes"
    [] label = "production_query" -> "handle_production_query"
    [] OTHER -> "handle_general"

\* C2: answer_query calls exactly one handler, the one its classification
\* alone determines; trend_analysis, rainfall_query and general all go to
\* handle_general.
C2_DispatchByLabel == Handled => called = <<HandlerOf(info.query_type)>>

\* a trend query naming a state and a crop went to the general handler
C2_Witness ==
  /\ Handled
  /\ info.query_type = "trend_analysis"
  /\ info.states # <<>>
  /\ info.crops # <<>>
  /\ called = <<"handle_general">>

\* C3: extract_years never returns an empty list, also for "last 0 years"
\* and for no year at all, so no handler takes min/max of an empty list.
C3_YearsNeverEmpty ==
  Handled => (info.years # <<>> /\ status = 200)

\* "last 0 years" was asked of the rainfall comparison, which takes min/max
C3_Witness ==
  /\ Handled
  /\ MatchesLast
  /\ LastN = 0
  /\ called = <<"handle_rainfall_comparison">>
  /\ Len(info.states) >= 2
  /\ info.years # <<>>

\* C4 as stated: "last N years" gives exactly 2023-N+1..2023 (N elements),
\* whatever 20xx tokens there are; otherwise the 20xx tokens in order of
\* appearance; otherwise 2020..2023.
C4_AsStated ==
  Handled =>
    IF MatchesLast THEN info.years = LastYears(LastN)
    ELSE IF ExplicitYears # <<>> THEN info.years = ExplicitYears
    ELSE info.years = <<2020, 2021, 2022, 2023>>

\* C4 amended: as stated for N >= 1; "last 0 years" gives 2020..2023.
C4_YearsPrecedence ==
  Handled =>
    IF MatchesLast /\ LastN >= 1 THEN info.years = LastYears(LastN)
    ELSE IF MatchesLast THEN info.years = <<2020, 2021, 2022, 2023>>
    ELSE IF ExplicitYears # <<>> THEN info.years = ExplicitYears
    ELSE info.years = <<2020, 2021, 2022, 2023>>

\* "last N years" with N >= 1 replaced the explicit years of the query
C4_Witness ==
  /\ Handled
  /\ MatchesLast
  /\ LastN >= 1
  /\ ExplicitYears # <<>>
  /\ Len(info.years) = LastN

\* C5 as stated: no list of states, crops or years holds an element twice,
\* and states and crops are in canonical-list order.
C5_AsStated ==
  Handled =>
    /\ NoDuplicate(info.states) /\ InListOrder(info.states, STATES)
    /\ NoDuplicate(info.crops) /\ InListOrder(info.crops, CROPS)
    /\ NoDuplicate(info.years)

\* C5 amended: states and crops hold no element twice and are in
\* canonical-list order; years holds an element twice only when it is the
\* list of the 20xx tokens of the query and a token is written twice.
C5_NoDuplicates ==
  Handled =>
    /\ NoDuplicate(info.states) /\ InListOrder(info.states, STATES)
    /\ NoDuplicate(info.crops) /\ InListOrder(info.crops, CROPS)
    /\ (NoDuplicate(info.years)
        \/ (~MatchesLast /\ info.years = ExplicitYears))

\* two states and two crops written in the reverse of the canonical order
C5_Witness ==
  /\ Handled
  /\ Len(info.states) >= 2
  /\ Len(info.crops) >= 2
  /\ info.states[1] = "Punjab" /\ info.states[2] = "Haryana"
  /\ FirstIndex(STATES_LOWER[2], Lower(posted)) < FirstIndex(STATES_LOWER[1], Lower(posted))
  /\ info.crops = <<"Rice", "Wheat">>
  /\ FirstIndex(CROPS_LOWER[2], Lower(posted)) < FirstIndex(CROPS_LOWER[1], Lower(posted))

\* C6: a query with two canonical state names, compare and rainfall is
\* classified rainfall_comparison and answered with exactly 2 citations
\* and metadata holding both state names and query_type rainfall_comparison.
C6_ComparisonAnswered ==
  (/\ Handled
   /\ Has(W_compare)
   /\ Has(W_rainfall)
   /\ \E i, j \in 1..Len(STATES) : i # j /\ Has(STATES_LOWER[i]) /\ Has(STATES_LOWER[j]))
  =>
    /\ status = 200
    /\ info.query_type = "rainfall_comparison"
    /\ Len(response.sources) = 2
    /\ DOMAIN response.metadata = {"states", "years", "query_type"}
    /\ response.metadata.query_type = "rainfall_comparison"
    /\ \A i \in 1..Len(STATES) :
         Has(STATES_LOWER[i]) => STATES[i] \in Elems(response.metadata.states)

\* compare, rainfall, highest and two states: answered as a comparison
C6_Witness ==
  /\ Handled
  /\ Has(W_compare) /\ Has(W_rainfall) /\ Has(W_highest)
  /\ \E i, j \in 1..Len(STATES) : i # j /\ Has(STATES_LOWER[i]) /\ Has(STATES_LOWER[j])
  /\ Len(response.sources) = 2
  /\ Len(response.metadata.states) = 2

\* the response carries a warning, no citation and no metadata
WarnedEmpty ==
  /\ status = 200
  /\ Head(response.answer) = WarningMarker
  /\ response.sources = <<>>
  /\ response.metadata = <<>>

\* C7 as stated: a query with highest or lowest in which no state or no
\* crop is recognized is answered with a warning, no sources and no
\* metadata.
C7_AsStated ==
  (/\ Handled
   /\ Has(W_highest) \/ Has(W_lowest)
   /\ info.states = <<>> \/ info.crops = <<>>)
  => WarnedEmpty

\* C7 amended: the same, for queries that do not contain both compare and
\* rainfall.
C7_ExtremesWarning ==
  (/\ Handled
   /\ Has(W_highest) \/ Has(W_lowest)
   /\ ~(Has(W_compare) /\ Has(W_rainfall))
   /\ info.states = <<>> \/ info.crops = <<>>)
  => (called = <<"handle_production_extremes">> /\ WarnedEmpty)

\* a highest/lowest query with a crop but no state got the warning
C7_Witness ==
  /\ Handled
  /\ Has(W_highest) \/ Has(W_lowest)
  /\ info.states = <<>>
  /\ info.crops # <<>>
  /\ called = <<"handle_production_extremes">>
  /\ WarnedEmpty

\* C8: a request without a query (no 'query' key, an empty query, no usable
\* JSON body) gets 400 "No query provided" and answer_query is not called;
\* 500 only for a request that supplied a query; 200 and success otherwise.
C8_MissingQueryIs400 ==
  pc = "done" =>
    /\ (body # "query" \/ posted = <<>>) =>
         /\ status = 400
         /\ response = [success |-> FALSE, error |-> "No query provided"]
         /\ called = <<>>
    /\ status = 500 => (body = "query" /\ posted # <<>>)
    /\ (body = "query" /\ posted # <<>> /\ status # 500) =>
         (status = 200 /\ response.success)

====
